---- MODULE Spec2Model ----
(***************************************************************************)
(* Model of src/main.c (Flappy birds, raylib): texture loading and         *)
(* release in main, the per-frame bird physics and animation (DrawBird),   *)
(* and the scrolling layers (DrawScrollingBackground).                     *)
(*                                                                         *)
(* Numbers.  A C float holding pixels, pixels per second or degrees is a   *)
(* fixed-point integer counting thousandths (Milli); the result of every   *)
(* multiplication or division is rounded to the nearest thousandth, as a   *)
(* float operation rounds to the nearest float.  A float holding seconds   *)
(* (dt, frameTimer, frameDuration) counts 1/DtDen of a second; these are   *)
(* dyadic fractions, exact in a float.                                     *)
(***************************************************************************)
EXTENDS Integers, Sequences, FiniteSets, TLC

(* ------------------------------ constants ------------------------------ *)

SCREEN_HEIGHT == 768
SCALE_TENTHS == 15
MAX_VELOCITY == 800
MIN_VELOCITY == -400
BG_SPEED == 40
BG_POS_Y == 0
BASE_SPEED == BG_SPEED * 3
BASE_POS_Y == 600
BIRD_START_X == 100
FRAME_RATE == 8
WRAP_TENTHS == 15
GRAVITY_Y == 980
JUMP_FORCE_Y == -400
VELOCITY_CLAMP_MIN == -1200
VELOCITY_CLAMP_MAX == 1500
DAMPING_PERCENT == 99
ANGLE_MIN == -30
ANGLE_MAX == 90
NUM_BIRD_TEXTURES == 3

(* ------------------------------- bounds -------------------------------- *)

\* Frames of the main loop explored from the initial state.
MaxTicks == 4
\* DrawScrollingBackground calls explored by SpecScroll.
MaxCalls == 6

(* ------------------------- number representation ----------------------- *)

Milli == 10 ^ 3
DtDen == 2 * FRAME_RATE

\* Frame times GetFrameTime() returns, in 1/DtDen s: 0, half a frame
\* duration (1/16 s), 3/8 s (a slow frame) and 1 s (a stall).
DtSet == {0, 1, 6, DtDen}

\* Widths in pixels of the image files LoadTexture reads.
TexWidth == [bg |-> 288, base |-> 336, pipe |-> 52,
             bird0 |-> 34, bird1 |-> 34, bird2 |-> 34]
\* Tile widths of the layers SpecScroll draws its layer from.
ScrollWidths == {4, 5, 10, 288}

Float(n) == n * Milli

RoundDiv(a, b) ==
  IF a >= 0 THEN (2 * a + b) \div (2 * b)
  ELSE -((2 * (-a) + b) \div (2 * b))

\* x * dt with dt in 1/DtDen s
MulDt(x, d) == RoundDiv(x * d, DtDen)

\* x * SCALE
Scale(x) == RoundDiv(x * SCALE_TENTHS, 10)

\* raymath Clamp
Clamp(value, min, max) ==
  IF value < min THEN min ELSE IF value > max THEN max ELSE value

\* The four range ends are whole numbers (integer literals at the call, line
\* 92); value and the result are fixed-point.
RemapClamped(value, inputStart, inputEnd, outputStart, outputEnd) ==
  Clamp(RoundDiv((value - Float(inputStart)) * (outputEnd - outputStart),
                 inputEnd - inputStart) + Float(outputStart),
        Float(outputStart), Float(outputEnd))

\* raymath Remap: (value - inputStart) / (inputEnd - inputStart)
\*                 * (outputEnd - outputStart) + outputStart
Remap(value, inputStart, inputEnd, outputStart, outputEnd) ==
  RoundDiv((value - Float(inputStart)) * (outputEnd - outputStart),
           inputEnd - inputStart) + Float(outputStart)

(* -------------------------------- state -------------------------------- *)

VARIABLES
  pc,          \* where main is: loadBg, loadBase, loadPipe, loadBirds, loop, done
  exitCode,    \* main's return value, -1 while it runs
  windowOpen,  \* between InitWindow and CloseWindow
  loaded,      \* per texture: "none", "valid" or "invalid" (LoadTexture's result)
  unloads,     \* per texture: number of UnloadTexture calls on it
  gameStarted,
  bird,
  background,
  base,
  dt,          \* main's dt of the current frame
  keySpace,    \* IsKeyPressed(KEY_SPACE) of the current frame
  velInt,      \* bird.velocity.y right after line 219 of the current frame
  clamped,     \* a position clamp (226-234) assigned position.y this frame
  ticks,       \* frames (or harness calls) so far
  uniformDt    \* every frame so far had the same dt

vars == <<pc, exitCode, windowOpen, loaded, unloads, gameStarted, bird,
          background, base, dt, keySpace, velInt, clamped, ticks, uniformDt>>

Tex == {"bg", "base", "pipe", "bird0", "bird1", "bird2"}
BirdTex == <<"bird0", "bird1", "bird2">>

NoBird == [position |-> [x |-> 0, y |-> 0], velocity |-> [x |-> 0, y |-> 0],
           radius |-> 0, textureLength |-> 0, currentFrame |-> 0,
           frameTimer |-> 0, frameDuration |-> 0, angle |-> 0]
NoLayer == [width |-> 0, posX |-> 0, posY |-> 0, scrollSpeed |-> 0]

(* ------------------------------- Bird ---------------------------------- *)

CreateBird(width0, length) ==
  [position |-> [x |-> Float(BIRD_START_X), y |-> RoundDiv(Float(SCREEN_HEIGHT), 2)],
   velocity |-> [x |-> 0, y |-> 0],
   radius |-> RoundDiv(Float(width0), 2),
   textureLength |-> length,
   currentFrame |-> 0,
   frameTimer |-> 0,
   frameDuration |-> DtDen \div FRAME_RATE,
   angle |-> 0]

WrapFrameOffByOne(frame, length) == IF frame > length THEN 0 ELSE frame

\* lines 74-76
WrapFrame(frame, length) == IF frame >= length THEN 0 ELSE frame

\* lines 65-79
AdvanceFrame(b, d) ==
  LET t == b.frameTimer + d IN
  IF t >= b.frameDuration
  THEN [b EXCEPT !.frameTimer = t - b.frameDuration,
                 !.currentFrame = WrapFrame(b.currentFrame + 1, b.textureLength)]
  ELSE [b EXCEPT !.frameTimer = t]

\* lines 91-93
UpdateAngle(b) ==
  IF b.velocity.y # 0
  THEN [b EXCEPT !.angle = Remap(b.velocity.y, MIN_VELOCITY, MAX_VELOCITY,
                                 ANGLE_MIN, ANGLE_MAX)]
  ELSE b

DrawBird(b, d) == UpdateAngle(AdvanceFrame(b, d))

(* -------------------------- ScrollingBackground ------------------------ *)

CreateScrollingBackground(width, posY, speed) ==
  [width |-> width, posX |-> 0, posY |-> Float(posY), scrollSpeed |-> Float(speed)]

\* -bg->texture.width * 1.5f
WrapThreshold(bg) == -RoundDiv(Float(bg.width) * WRAP_TENTHS, 10)

ResetPosXStrict(posX, threshold) == IF posX < threshold THEN 0 ELSE posX

ResetPosXCarry(posX, threshold) ==
  IF posX <= threshold THEN posX - threshold ELSE posX

\* lines 118-120
ResetPosX(posX, threshold) == IF posX <= threshold THEN 0 ELSE posX

\* lines 114-120.  Lines 122-137 only draw: they keep no state (dest.width,
\* read at line 132 before it is set, only decides where the tiles land).
DrawScrollingBackground(bg, d) ==
  [bg EXCEPT !.posX = ResetPosX(bg.posX - MulDt(bg.scrollSpeed, d),
                                WrapThreshold(bg))]

(* ------------------------------- main ---------------------------------- *)

\* line 203
jumpForce == [x |-> 0, y |-> Float(JUMP_FORCE_Y)]
\* line 202
gravity == [x |-> 0, y |-> Float(GRAVITY_Y)]

JumpAppliesUngated(space, started) == space

\* line 213
JumpApplies(space, started) == space /\ started

JumpVelocityAdditive(velocity, force) ==
  [x |-> velocity.x + force.x, y |-> velocity.y + force.y]

\* line 214
JumpVelocity(velocity, force) == force

\* lines 218-219
IntegrateVelocity(velocity, d) ==
  [x |-> velocity.x + MulDt(gravity.x, d),
   y |-> Clamp(velocity.y + MulDt(gravity.y, d),
               Float(VELOCITY_CLAMP_MIN), Float(VELOCITY_CLAMP_MAX))]

\* lines 221-222
IntegratePosition(position, velocity, d) ==
  [x |-> position.x + MulDt(velocity.x, d),
   y |-> position.y + MulDt(velocity.y, d)]

DampNone(velocityY) == velocityY

\* line 224: the factor is applied on every frame, whatever dt is
Damp(velocityY) == RoundDiv(velocityY * DAMPING_PERCENT, 100)

GroundY(b) == Float(BASE_POS_Y) - Scale(b.radius)
CeilingY(b) == Scale(b.radius)

ClampGroundBounce(b) ==
  IF b.position.y > GroundY(b)
  THEN [b EXCEPT !.position.y = GroundY(b), !.velocity.y = -b.velocity.y]
  ELSE b

\* lines 226-229
ClampGround(b) ==
  IF b.position.y > GroundY(b)
  THEN [b EXCEPT !.position.y = GroundY(b), !.velocity.y = 0]
  ELSE b

\* lines 231-234
ClampCeiling(b) ==
  IF b.position.y < CeilingY(b)
  THEN [b EXCEPT !.position.y = CeilingY(b), !.velocity.y = 0]
  ELSE b

\* lines 218-234, with the two values the frame passes through
Physics(b, d) ==
  LET b1 == [b EXCEPT !.velocity = IntegrateVelocity(b.velocity, d)]
      b2 == [b1 EXCEPT !.position = IntegratePosition(b1.position, b1.velocity, d)]
      b3 == [b2 EXCEPT !.velocity.y = Damp(b2.velocity.y)]
      b4 == ClampGround(b3)
      b5 == ClampCeiling(b4)
  IN [bird |-> b5,
      velInt |-> b1.velocity.y,
      clamped |-> (b3.position.y > GroundY(b3)) \/ (b4.position.y < CeilingY(b4))]

Init ==
  /\ pc = "loadBg"
  /\ exitCode = -1
  /\ windowOpen = TRUE
  /\ loaded = [t \in Tex |-> "none"]
  /\ unloads = [t \in Tex |-> 0]
  /\ gameStarted = FALSE
  /\ bird = NoBird
  /\ background = NoLayer
  /\ base = NoLayer
  /\ dt = 0
  /\ keySpace = FALSE
  /\ velInt = 0
  /\ clamped = FALSE
  /\ ticks = 0
  /\ uniformDt = TRUE

\* TraceLog, CloseWindow, return 1
FailExit ==
  /\ windowOpen' = FALSE
  /\ pc' = "done"
  /\ exitCode' = 1

\* lines 151-160
LoadBackground ==
  /\ pc = "loadBg"
  /\ \E r \in {"valid", "invalid"} :
       /\ loaded' = [loaded EXCEPT !["bg"] = r]
       /\ IF r = "invalid"
          THEN FailExit /\ UNCHANGED background
          ELSE /\ background' = CreateScrollingBackground(TexWidth.bg, BG_POS_Y, BG_SPEED)
               /\ pc' = "loadBase"
               /\ UNCHANGED <<windowOpen, exitCode>>
  /\ UNCHANGED <<unloads, gameStarted, bird, base, dt, keySpace, velInt,
                 clamped, ticks, uniformDt>>

\* lines 162-171
LoadBase ==
  /\ pc = "loadBase"
  /\ \E r \in {"valid", "invalid"} :
       /\ loaded' = [loaded EXCEPT !["base"] = r]
       /\ IF r = "invalid"
          THEN FailExit /\ UNCHANGED base
          ELSE /\ base' = CreateScrollingBackground(TexWidth.base, BASE_POS_Y, BASE_SPEED)
               /\ pc' = "loadPipe"
               /\ UNCHANGED <<windowOpen, exitCode>>
  /\ UNCHANGED <<unloads, gameStarted, bird, background, dt, keySpace, velInt,
                 clamped, ticks, uniformDt>>

\* lines 173-180
LoadPipe ==
  /\ pc = "loadPipe"
  /\ \E r \in {"valid", "invalid"} :
       /\ loaded' = [loaded EXCEPT !["pipe"] = r]
       /\ IF r = "invalid"
          THEN FailExit
          ELSE pc' = "loadBirds" /\ UNCHANGED <<windowOpen, exitCode>>
  /\ UNCHANGED <<unloads, gameStarted, bird, background, base, dt, keySpace,
                 velInt, clamped, ticks, uniformDt>>

\* lines 182-199: the three frames are loaded first, then checked in order
LoadBirds ==
  /\ pc = "loadBirds"
  /\ \E r \in [1..NUM_BIRD_TEXTURES -> {"valid", "invalid"}] :
       /\ loaded' = [t \in Tex |->
                       IF \E i \in 1..NUM_BIRD_TEXTURES : BirdTex[i] = t
                       THEN r[CHOOSE i \in 1..NUM_BIRD_TEXTURES : BirdTex[i] = t]
                       ELSE loaded[t]]
       /\ IF \E i \in 1..NUM_BIRD_TEXTURES : r[i] = "invalid"
          THEN FailExit /\ UNCHANGED bird
          ELSE /\ bird' = CreateBird(TexWidth.bird0, NUM_BIRD_TEXTURES)
               /\ pc' = "loop"
               /\ UNCHANGED <<windowOpen, exitCode>>
  /\ UNCHANGED <<unloads, gameStarted, background, base, dt, keySpace, velInt,
                 clamped, ticks, uniformDt>>

\* lines 207-250: the body of the main loop for one frame's inputs
Frame(d, keyS, space) ==
  LET started == gameStarted \/ keyS
      b0 == IF JumpApplies(space, started)
            THEN [bird EXCEPT !.velocity = JumpVelocity(bird.velocity, jumpForce)]
            ELSE bird
      ph == Physics(b0, d)
      b1 == IF started THEN ph.bird ELSE b0
  IN /\ dt' = d
     /\ keySpace' = space
     /\ gameStarted' = started
     /\ velInt' = IF started THEN ph.velInt ELSE velInt
     /\ clamped' = (started /\ ph.clamped)
     /\ background' = DrawScrollingBackground(background, d)
     /\ bird' = DrawBird(b1, d)
     /\ base' = DrawScrollingBackground(base, d)
     /\ UNCHANGED <<pc, exitCode, windowOpen, loaded, unloads>>

\* lines 206-251: one iteration of the main loop
Tick ==
  /\ pc = "loop"
  /\ ticks < MaxTicks
  /\ \E d \in DtSet, keyS \in BOOLEAN, space \in BOOLEAN :
       /\ Frame(d, keyS, space)
       /\ uniformDt' = ((ticks = 0) \/ (uniformDt /\ d = dt))
  /\ ticks' = ticks + 1

\* DestroyBird, lines 54-60, then DestroyAnimation twice, lines 140-143
Released(t) ==
  (IF \E i \in 1..bird.textureLength : BirdTex[i] = t THEN 1 ELSE 0)
  + (IF t = "bg" THEN 1 ELSE 0)
  + (IF t = "base" THEN 1 ELSE 0)

\* lines 206, 253-257: WindowShouldClose() is true
Shutdown ==
  /\ pc = "loop"
  /\ unloads' = [t \in Tex |-> unloads[t] + Released(t)]
  /\ windowOpen' = FALSE
  /\ pc' = "done"
  /\ exitCode' = 0
  /\ UNCHANGED <<loaded, gameStarted, bird, background, base, dt, keySpace,
                 velInt, clamped, ticks, uniformDt>>

Next == LoadBackground \/ LoadBase \/ LoadPipe \/ LoadBirds \/ Tick \/ Shutdown

Spec == Init /\ [][Next]_vars

(* --------------------------- a long climb ------------------------------ *)

\* The bird lies against the ceiling, stopped by the clamp of lines 231-234.
AtCeiling == gameStarted /\ bird.position.y = CeilingY(bird) /\ bird.velocity.y = 0

\* Frames of the main loop (lines 206-251) with fixed inputs: the player
\* presses S and SPACE on every frame of 1/16 s, from the start of the loop
\* until the bird is stopped by the ceiling.  The frames of Tick follow.
ClimbFrame ==
  /\ pc = "loop"
  /\ ticks = 0
  /\ ~AtCeiling
  /\ Frame(1, TRUE, TRUE)
  /\ UNCHANGED <<ticks, uniformDt>>

NextClimb == Next \/ ClimbFrame

SpecClimb == Init /\ [][NextClimb]_vars

(* ------------------------ one scrolling layer -------------------------- *)

\* A layer as CreateScrollingBackground returns it, with the speed and
\* height of either layer of main, over a range of tile widths.
InitScroll ==
  /\ pc = "scroll"
  /\ exitCode = -1
  /\ windowOpen = TRUE
  /\ loaded = [t \in Tex |-> "none"]
  /\ unloads = [t \in Tex |-> 0]
  /\ gameStarted = FALSE
  /\ bird = NoBird
  /\ background \in
       {CreateScrollingBackground(w, BG_POS_Y, BG_SPEED) : w \in ScrollWidths}
       \cup {CreateScrollingBackground(w, BASE_POS_Y, BASE_SPEED) : w \in ScrollWidths}
  /\ base = NoLayer
  /\ dt = 0
  /\ keySpace = FALSE
  /\ velInt = 0
  /\ clamped = FALSE
  /\ ticks = 0
  /\ uniformDt = TRUE

\* One call DrawScrollingBackground(&background, dt), lines 114-120
ScrollCall ==
  /\ pc = "scroll"
  /\ ticks < MaxCalls
  /\ \E d \in DtSet :
       /\ dt' = d
       /\ background' = DrawScrollingBackground(background, d)
       /\ uniformDt' = ((ticks = 0) \/ (uniformDt /\ d = dt))
  /\ ticks' = ticks + 1
  /\ UNCHANGED <<pc, exitCode, windowOpen, loaded, unloads, gameStarted, bird,
                 base, keySpace, velInt, clamped>>

SpecScroll == InitScroll /\ [][ScrollCall]_vars

(* ------------------------------- claims -------------------------------- *)

\* CreateBird has run: main is in its loop or left it by the normal return.
BirdExists == pc = "loop" \/ (pc = "done" /\ exitCode = 0)

\* C1: on every exit path of main, every texture that was loaded
\* successfully has been released exactly once when the program ends.
C1_LoadedTexturesReleasedOnce ==
  pc = "done" => \A t \in Tex : loaded[t] = "valid" => unloads[t] = 1

\* C2: on every frame of the started game the vertical velocity after the
\* gravity integration and clamp lies within [MIN_VELOCITY, MAX_VELOCITY].
C2_VelocityWithinMinMax ==
  gameStarted => /\ Float(MIN_VELOCITY) <= velInt
                 /\ velInt <= Float(MAX_VELOCITY)

\* C3: at the end of every frame position.y lies within
\* [radius*SCALE, BASE_POS_Y - radius*SCALE], and whenever the ground or
\* ceiling clamp assigned position.y in the frame, velocity.y ends the frame 0.
C3_PositionBoundedAndStopped ==
  BirdExists =>
    /\ RoundDiv(bird.radius * SCALE_TENTHS, 10) <= bird.position.y
    /\ bird.position.y <= Float(BASE_POS_Y) - RoundDiv(bird.radius * SCALE_TENTHS, 10)
    /\ clamped => bird.velocity.y = 0

\* C3 witness: a frame with free inputs in which the ceiling clamp fired.
C3_Witness ==
  /\ clamped
  /\ ticks > 0
  /\ bird.position.y = RoundDiv(bird.radius * SCALE_TENTHS, 10)

\* C4: while the game has not been started, whatever the frame times and
\* SPACE presses, position and velocity keep their values at creation.
C4_InertBeforeStart ==
  (BirdExists /\ ~gameStarted) =>
    /\ bird.position = [x |-> Float(BIRD_START_X), y |-> Float(SCREEN_HEIGHT) \div 2]
    /\ bird.velocity = [x |-> 0, y |-> 0]

\* C4 witness: not started after several frames, the last one with dt > 0
\* and SPACE pressed.
C4_Witness == ~gameStarted /\ ticks >= 2 /\ keySpace /\ dt > 0

StartedFrameZeroDtNoJump ==
  pc = "loop" /\ gameStarted /\ ticks' = ticks + 1 /\ dt' = 0 /\ ~keySpace'

\* C5 as stated: a frame of the started game with dt = 0 and no jump leaves
\* position and velocity unchanged.
C5_ZeroDtChangesNothing ==
  [][StartedFrameZeroDtNoJump =>
       bird'.position = bird.position /\ bird'.velocity = bird.velocity]_vars

\* C5 amended: a frame of the started game with dt = 0 and no jump leaves
\* the position and velocity.x unchanged and multiplies velocity.y by the
\* damping factor 0.99.
C5_ZeroDtOnlyDamps ==
  [][StartedFrameZeroDtNoJump =>
       /\ bird'.position = bird.position
       /\ bird'.velocity.x = bird.velocity.x
       /\ bird'.velocity.y = RoundDiv(bird.velocity.y * DAMPING_PERCENT, 100)]_vars

\* C5 witness: a moving bird after a frame with dt = 0 and no jump.
C5_Witness ==
  gameStarted /\ ticks >= 2 /\ dt = 0 /\ ~keySpace /\ bird.velocity.y # 0

\* C6 as stated: on a frame with a jump the velocity that integrates the
\* position is exactly the jump force; gravity has not changed it.
C6_JumpVelocityWithoutGravity ==
  (gameStarted /\ keySpace) => velInt = Float(JUMP_FORCE_Y)

\* C6 amended: on a frame with a jump the velocity is assigned the jump
\* force (not added to the previous velocity) and gravity accelerates it in
\* that same frame: the velocity that integrates the position is
\* jumpForce.y + gravity.y * dt, clamped to [-1200, 1500].
C6_JumpVelocityThenGravity ==
  (gameStarted /\ keySpace) =>
    velInt = Clamp(Float(JUMP_FORCE_Y) + RoundDiv(Float(GRAVITY_Y) * dt, DtDen),
                   Float(VELOCITY_CLAMP_MIN), Float(VELOCITY_CLAMP_MAX))

\* C6 witness: a jump on a frame with dt > 0, after an earlier started frame.
C6_Witness ==
  gameStarted /\ keySpace /\ dt > 0 /\ ticks >= 3 /\ velInt > Float(JUMP_FORCE_Y)

TileThreshold == RoundDiv(Float(background.width) * WRAP_TENTHS, 10)

\* C7: after every DrawScrollingBackground call posX <= 0 and
\* posX > -tileWidth*1.5, and a decrement that reaches or crosses the
\* threshold resets posX to 0 in that same call.
C7_PosXWithinOneTile ==
  [][/\ background'.posX <= 0
     /\ background'.posX > -TileThreshold
     /\ (background.posX - RoundDiv(background.scrollSpeed * dt', DtDen)
           <= -TileThreshold) => background'.posX = 0]_vars

\* C7 witness: a call whose decrement landed exactly on the threshold.
C7_Witness ==
  /\ ticks >= 2
  /\ uniformDt
  /\ background.posX = 0
  /\ ticks * RoundDiv(background.scrollSpeed * dt, DtDen) = TileThreshold

ScrollStep == RoundDiv(background.scrollSpeed * dt, DtDen)

\* C8 as stated: after N calls with constant speed and dt, posX equals
\* -((N*s*dt) mod (tileWidth*1.5)).
C8_PosXIsModulo ==
  uniformDt => background.posX = -((ticks * ScrollStep) % TileThreshold)

\* C8 amended: after N calls with constant speed and dt, posX equals
\* -((N mod k) * s*dt), k the least number of steps with
\* k*s*dt >= tileWidth*1.5 (posX stays 0 when s*dt = 0); the part of the
\* step beyond the threshold is dropped by the reset.
C8_PosXRestartsAtZero ==
  uniformDt =>
    IF ScrollStep = 0 THEN background.posX = 0
    ELSE background.posX =
           -((ticks % ((TileThreshold + ScrollStep - 1) \div ScrollStep)) * ScrollStep)

\* C8 witness: a reset that dropped a remainder.
C8_Witness ==
  /\ uniformDt
  /\ ticks > 0
  /\ ScrollStep > 0
  /\ background.posX = 0
  /\ (ticks * ScrollStep) % TileThreshold # 0

\* C9: after every DrawBird call the angle is the one before the call when
\* velocity.y is 0, and otherwise the linear remap of velocity.y from
\* [MIN_VELOCITY, MAX_VELOCITY] to [-30, 90], not clamped: a velocity.y
\* outside the input range gives an angle outside [-30, 90].
C9_AngleFollowsVelocity ==
  [][(pc = "loop" /\ pc' = "loop") =>
       /\ IF bird'.velocity.y = 0
          THEN bird'.angle = bird.angle
          ELSE bird'.angle =
                 RoundDiv((bird'.velocity.y - Float(MIN_VELOCITY)) * (90 - (-30)),
                          MAX_VELOCITY - MIN_VELOCITY) + Float(-30)
       /\ bird'.velocity.y > Float(MAX_VELOCITY) => bird'.angle > Float(90)
       /\ bird'.velocity.y < Float(MIN_VELOCITY) => bird'.angle < Float(-30)]_vars

\* C9 witness: the bird falls faster than MAX_VELOCITY and is drawn tilted
\* beyond 90 degrees.
C9_Witness ==
  /\ pc = "loop"
  /\ bird.velocity.y > Float(MAX_VELOCITY)
  /\ bird.angle > Float(90)

\* C10: currentFrame is within [0, textureLength) when it indexes the frame
\* array; a DrawBird call advances it by at most one step, wrapping to 0
\* after the last frame, and then reduces frameTimer by frameDuration
\* (no reset); with constant dt = frameDuration/2 the frame advances
\* exactly once every two calls.
C10_FrameAnimation ==
  [][(pc = "loop" /\ pc' = "loop") =>
       LET t == bird.frameTimer + dt' IN
       /\ bird'.currentFrame \in 0 .. (bird'.textureLength - 1)
       /\ IF t >= bird.frameDuration
          THEN /\ bird'.currentFrame = (bird.currentFrame + 1) % bird.textureLength
               /\ bird'.frameTimer = t - bird.frameDuration
          ELSE /\ bird'.currentFrame = bird.currentFrame
               /\ bird'.frameTimer = t
       /\ (uniformDt' /\ 2 * dt' = bird'.frameDuration) =>
            bird'.currentFrame = (ticks' \div 2) % bird'.textureLength]_vars

\* C10 witness: four calls with dt = frameDuration/2 advanced the frame twice.
C10_Witness ==
  /\ uniformDt
  /\ 2 * dt = bird.frameDuration
  /\ ticks = 4
  /\ bird.currentFrame = 2

====
